---- MODULE Spec2Model ----
(***************************************************************************)
(* Model of LivrariaWebVersion/app.py: the livros table in one SQLite      *)
(* file, the snapshot directory with its retention rule, the validators,   *)
(* the CSV export/import and the request handlers that call them.          *)
(*                                                                         *)
(* Text is a sequence of one-character strings.  Python's None and the     *)
(* empty string are the same value <<>> wherever the code reads an input   *)
(* (every such read is "x or ''", "x not in (None, '')" or a validator     *)
(* that rejects both); a stored optional value is <<>> or <<v>>.           *)
(***************************************************************************)
EXTENDS Integers, Sequences, FiniteSets, TLC

\* ------------------------------------------------------------------ text
None == <<>>

Some(v) == <<v>>

Digits == {"0", "1", "2", "3", "4", "5", "6", "7", "8", "9"}

Whitespace == {" ", "\t", "\n", "\r"}

DigitVal(c) ==
  CASE c = "0" -> 0 [] c = "1" -> 1 [] c = "2" -> 2 [] c = "3" -> 3
    [] c = "4" -> 4 [] c = "5" -> 5 [] c = "6" -> 6 [] c = "7" -> 7
    [] c = "8" -> 8 [] c = "9" -> 9

DigitChar(d) ==
  CASE d = 0 -> "0" [] d = 1 -> "1" [] d = 2 -> "2" [] d = 3 -> "3"
    [] d = 4 -> "4" [] d = 5 -> "5" [] d = 6 -> "6" [] d = 7 -> "7"
    [] d = 8 -> "8" [] d = 9 -> "9"

RECURSIVE LStrip(_)
LStrip(s) == IF s # <<>> /\ Head(s) \in Whitespace THEN LStrip(Tail(s)) ELSE s

RECURSIVE RStrip(_)
RStrip(s) ==
  IF s # <<>> /\ s[Len(s)] \in Whitespace THEN RStrip(SubSeq(s, 1, Len(s) - 1)) ELSE s

\* str.strip()
Strip(s) == RStrip(LStrip(s))

\* "a or b" on two strings (None and "" are both falsy)
Or(a, b) == IF a # <<>> THEN a ELSE b

RECURSIVE DigitsVal(_)
DigitsVal(s) == IF s = <<>> THEN 0 ELSE 10 * DigitsVal(SubSeq(s, 1, Len(s) - 1)) + DigitVal(s[Len(s)])

RECURSIVE NatStr(_)
NatStr(n) == IF n < 10 THEN <<DigitChar(n)>> ELSE NatStr(n \div 10) \o <<DigitChar(n % 10)>>

\* str(int)
IntStr(n) == IF n < 0 THEN <<"-">> \o NatStr(-n) ELSE NatStr(n)

AllDigits(s) == s # <<>> /\ \A i \in 1..Len(s) : s[i] \in Digits

Unsigned(s) == IF s # <<>> /\ Head(s) \in {"+", "-"} THEN Tail(s) ELSE s

Negative(s) == s # <<>> /\ Head(s) = "-"

\* int(s): None when s is no integer literal, else <<value>>
ParseInt(s) ==
  LET t == Strip(s)
      u == Unsigned(t)
  IN  IF AllDigits(u) THEN Some(IF Negative(t) THEN -DigitsVal(u) ELSE DigitsVal(u)) ELSE None

RECURSIVE Pow10(_)
Pow10(e) == IF e = 0 THEN 1 ELSE 10 * Pow10(e - 1)

\* a decimal value neg * m / 10^e, in lowest form
RECURSIVE Normal(_)
Normal(v) == IF v.e > 0 /\ v.m % 10 = 0 THEN Normal([v EXCEPT !.m = @ \div 10, !.e = @ - 1]) ELSE v

DotAt(s) == IF \E i \in 1..Len(s) : s[i] = "." THEN CHOOSE i \in 1..Len(s) : s[i] = "." ELSE 0

\* float(s) on decimal literals: None when s is none, else <<value>>
ParseFloat(s) ==
  LET t == Strip(s)
      u == Unsigned(t)
      d == DotAt(u)
      ip == IF d = 0 THEN u ELSE SubSeq(u, 1, d - 1)
      fp == IF d = 0 THEN <<>> ELSE SubSeq(u, d + 1, Len(u))
      ok == /\ ip \o fp # <<>>
            /\ \A i \in 1..Len(ip) : ip[i] \in Digits
            /\ \A i \in 1..Len(fp) : fp[i] \in Digits
  IN  IF ok THEN Some(Normal([neg |-> Negative(t), m |-> DigitsVal(ip \o fp), e |-> Len(fp)]))
      ELSE None

RECURSIVE PadLeft(_, _)
PadLeft(s, n) == IF Len(s) >= n THEN s ELSE PadLeft(<<"0">> \o s, n)

\* repr(float): the shortest decimal, always with a fractional part
FloatRepr(v) ==
  (IF v.neg THEN <<"-">> ELSE <<>>) \o NatStr(v.m \div Pow10(v.e)) \o <<".">>
    \o (IF v.e = 0 THEN <<"0">> ELSE PadLeft(NatStr(v.m % Pow10(v.e)), v.e))

\* ------------------------------------------------------------ validation
CurrentYear == 2026

validar_ano(ano_str) ==
  LET ano == ParseInt(ano_str)
  IN  IF ano # None /\ 1000 <= ano[1] /\ ano[1] <= CurrentYear + 1 THEN ano ELSE None

validar_preco(preco_str) ==
  LET preco == ParseFloat(preco_str)
  IN  IF preco # None /\ (~preco[1].neg \/ preco[1].m = 0) THEN preco ELSE None

\* ------------------------------------------------------------------- CSV
Quote == "\""

EOL == "EOL"

LineEnds == {"\n", "\r"}

K_titulo == <<"t", "i", "t", "u", "l", "o">>

K_title == <<"t", "i", "t", "l", "e">>

K_autor == <<"a", "u", "t", "o", "r">>

K_author == <<"a", "u", "t", "h", "o", "r">>

K_ano == <<"a", "n", "o", "_", "p", "u", "b", "l", "i", "c", "a", "c", "a", "o">>

K_year == <<"y", "e", "a", "r">>

K_preco == <<"p", "r", "e", "c", "o">>

K_price == <<"p", "r", "i", "c", "e">>

RECURSIVE DoubleQuotes(_)
DoubleQuotes(f) ==
  IF f = <<>> THEN <<>>
  ELSE (IF Head(f) = Quote THEN <<Quote, Quote>> ELSE <<Head(f)>>) \o DoubleQuotes(Tail(f))

\* a writer that never quotes
WriteFieldRaw(f) == f

\* csv.writer, excel dialect, QUOTE_MINIMAL: one field
WriteField(f) ==
  IF \E i \in 1..Len(f) : f[i] \in {",", Quote} \cup LineEnds
  THEN <<Quote>> \o DoubleQuotes(f) \o <<Quote>>
  ELSE f

RECURSIVE JoinFields(_)
JoinFields(fields) ==
  IF Len(fields) = 1 THEN WriteField(fields[1])
  ELSE WriteField(Head(fields)) \o <<",">> \o JoinFields(Tail(fields))

\* csv.writer.writerow: lineterminator "\r\n"
WriteRow(fields) == JoinFields(fields) \o <<"\r", "\n">>

RowFields(r) ==
  << r.titulo, r.autor,
     IF r.ano # None THEN IntStr(r.ano[1]) ELSE <<>>,
     IF r.preco # None THEN FloatRepr(r.preco[1]) ELSE <<>> >>

RECURSIVE WriteRows(_)
WriteRows(rows) == IF rows = <<>> THEN <<>> ELSE WriteRow(RowFields(Head(rows))) \o WriteRows(Tail(rows))

\* export_csv_to_memory on the rows listar_livros returns
ExportCsv(rows) == WriteRow(<<K_titulo, K_autor, K_ano, K_preco>>) \o WriteRows(rows)

Count(s, c) == Cardinality({i \in 1..Len(s) : s[i] = c})

detect_delimiter(sample_line) == IF Count(sample_line, ",") >= Count(sample_line, ";") THEN "," ELSE ";"

\* text.splitlines()[0], for a text that has a line
FirstLine(text) ==
  LET ends == {i \in 1..Len(text) : text[i] \in LineEnds}
  IN  IF ends = {} THEN text
      ELSE SubSeq(text, 1, (CHOOSE i \in ends : \A j \in ends : i <= j) - 1)

\* csv.reader's parser: one character (or the end of a line) in state S
ReaderStart == [st |-> "START_RECORD", field |-> <<>>, fields |-> <<>>, err |-> FALSE]

SaveField(S, st) == [S EXCEPT !.fields = Append(@, S.field), !.field = <<>>, !.st = st]

AddChar(S, c, st) == [S EXCEPT !.field = Append(@, c), !.st = st]

AfterLineEnd(c) == IF c = EOL THEN "START_RECORD" ELSE "EAT_CRNL"

StartField(S, c, delim) ==
  IF c \in LineEnds \cup {EOL} THEN SaveField(S, AfterLineEnd(c))
  ELSE IF c = Quote THEN [S EXCEPT !.st = "IN_QUOTED_FIELD"]
  ELSE IF c = delim THEN SaveField(S, "START_FIELD")
  ELSE AddChar(S, c, "IN_FIELD")

ReaderStep(S, c, delim) ==
  CASE S.st = "START_RECORD" ->
         IF c = EOL THEN S
         ELSE IF c \in LineEnds THEN [S EXCEPT !.st = "EAT_CRNL"]
         ELSE StartField(S, c, delim)
    [] S.st = "START_FIELD" -> StartField(S, c, delim)
    [] S.st = "IN_FIELD" ->
         IF c \in LineEnds \cup {EOL} THEN SaveField(S, AfterLineEnd(c))
         ELSE IF c = delim THEN SaveField(S, "START_FIELD")
         ELSE AddChar(S, c, "IN_FIELD")
    [] S.st = "IN_QUOTED_FIELD" ->
         IF c = EOL THEN S
         ELSE IF c = Quote THEN [S EXCEPT !.st = "QUOTE_IN_QUOTED_FIELD"]
         ELSE AddChar(S, c, "IN_QUOTED_FIELD")
    [] S.st = "QUOTE_IN_QUOTED_FIELD" ->
         IF c = Quote THEN AddChar(S, c, "IN_QUOTED_FIELD")
         ELSE IF c = delim THEN SaveField(S, "START_FIELD")
         ELSE IF c \in LineEnds \cup {EOL} THEN SaveField(S, AfterLineEnd(c))
         ELSE AddChar(S, c, "IN_FIELD")
    [] S.st = "EAT_CRNL" ->
         IF c \in LineEnds THEN S
         ELSE IF c = EOL THEN [S EXCEPT !.st = "START_RECORD"]
         ELSE [S EXCEPT !.err = TRUE]

\* the reader over the lines io.StringIO yields (each ends at "\n" or at the end of
\* the text): the character text[i], then the end of the line if the line ends here;
\* a record is returned when a line ends in START_RECORD
ReadChar(R, text, i, delim) ==
  IF R.S.err THEN R
  ELSE
    LET S1 == ReaderStep(R.S, text[i], delim)
        eol == ~S1.err /\ (text[i] = "\n" \/ i = Len(text))
        S2 == IF eol THEN ReaderStep(S1, EOL, delim) ELSE S1
    IN  IF eol /\ ~S2.err /\ S2.st = "START_RECORD"
        THEN [S |-> ReaderStart, rows |-> Append(R.rows, S2.fields)]
        ELSE [S |-> S2, rows |-> R.rows]

\* the characters lo..hi in order.  The halves keep the evaluation shallow, and
\* the left half is bound to L as a value before the right half reads it.
RECURSIVE ReadRange(_, _, _, _, _)
ReadRange(R, text, lo, hi, delim) ==
  IF lo > hi THEN R
  ELSE IF lo = hi THEN ReadChar(R, text, lo, delim)
  ELSE LET mid == (lo + hi) \div 2
       IN  CHOOSE out \in {ReadRange(L, text, mid + 1, hi, delim) :
                             L \in {ReadRange(R, text, lo, mid, delim)}} : TRUE

\* the end of the input: an open quoted field or a pending field closes the record
ReadEnd(R) ==
  IF R.S.err THEN [err |-> TRUE, rows |-> <<>>]
  ELSE [err |-> FALSE,
        rows |-> IF R.S.st = "IN_QUOTED_FIELD" \/ R.S.field # <<>>
                 THEN Append(R.rows, SaveField(R.S, "START_RECORD").fields) ELSE R.rows]

\* list(csv.reader(io.StringIO(text), delimiter=delim))
CsvReader(text, delim) ==
  CHOOSE out \in {ReadEnd(R) :
                    R \in {ReadRange([S |-> ReaderStart, rows |-> <<>>], text, 1, Len(text), delim)}} : TRUE

\* r.get(key) of the dict csv.DictReader builds for a row (a missing key, a short
\* row's restval None and "" are all falsy)
DictGet(fieldnames, row, key) ==
  LET at == {i \in 1..Len(fieldnames) : fieldnames[i] = key}
      j == CHOOSE i \in at : \A k \in at : k <= i
  IN  IF at # {} /\ j <= Len(row) THEN row[j] ELSE <<>>

\* csv.DictReader over the reader's rows: the first row is the fieldnames, and
\* rows without any field are skipped
DictRows(all) ==
  [err |-> all.err,
   fieldnames |-> IF all.rows = <<>> THEN <<>> ELSE Head(all.rows),
   rows |-> IF all.rows = <<>> THEN <<>> ELSE SelectSeq(Tail(all.rows), LAMBDA r : r # <<>>)]

\* the tuple import_csv_file inserts for the row r
ImportRow(fieldnames, r) ==
  LET ano_raw == Or(DictGet(fieldnames, r, K_ano), DictGet(fieldnames, r, K_year))
      preco_raw == Or(DictGet(fieldnames, r, K_preco), DictGet(fieldnames, r, K_price))
  IN  [titulo |-> Strip(Or(DictGet(fieldnames, r, K_titulo), DictGet(fieldnames, r, K_title))),
       autor |-> Strip(Or(DictGet(fieldnames, r, K_autor), DictGet(fieldnames, r, K_author))),
       ano |-> IF ano_raw # <<>> THEN validar_ano(ano_raw) ELSE None,
       preco |-> IF preco_raw # <<>> THEN validar_preco(preco_raw) ELSE None]

ImportRows(d) ==
  [err |-> d.err,
   rows |-> IF d.err THEN <<>> ELSE [i \in 1..Len(d.rows) |-> ImportRow(d.fieldnames, d.rows[i])]]

\* what import_csv_file computes from the decoded text before it touches the
\* database: no line, or the rows of the DictReader under the detected delimiter
ParseText(text) ==
  IF text = <<>> THEN [err |-> FALSE, rows |-> <<>>]
  ELSE CHOOSE out \in {ImportRows(DictRows(all)) :
                         all \in {CsvReader(text, detect_delimiter(FirstLine(text)))}} : TRUE

ImportParse(file) == CHOOSE out \in {ParseText(text) : text \in {file}} : TRUE

\* ------------------------------------------------------ the database file
\* db: the file DB_FILE.  exists: the file is there; table: it holds the livros
\* table; livros: the rows in id order; seq: the last AUTOINCREMENT id; mtime: the
\* file's modification time (one tick of its own clock per write to the file).
NoDb == [exists |-> FALSE, table |-> FALSE, livros |-> <<>>, seq |-> 0, mtime |-> 0]

\* get_connection: sqlite3.connect creates the file, without any table, if absent
get_connection(d) == IF d.exists THEN d ELSE [d EXCEPT !.exists = TRUE, !.mtime = @ + 1]

\* init_db: CREATE TABLE IF NOT EXISTS livros
init_db(d) ==
  LET c == get_connection(d)
  IN  IF c.table THEN c ELSE [c EXCEPT !.table = TRUE, !.mtime = @ + 1]

\* the bytes of the database file
FileData(d) == [table |-> d.table, livros |-> d.livros, seq |-> d.seq]

Ids(d) == {d.livros[i].id : i \in 1..Len(d.livros)}

\* INSERT INTO livros (titulo, autor, ano_publicacao, preco)
Insert(d, r) ==
  [d EXCEPT !.livros = Append(@, [id |-> d.seq + 1, titulo |-> r.titulo, autor |-> r.autor,
                                  ano |-> r.ano, preco |-> r.preco]),
            !.seq = @ + 1, !.mtime = @ + 1]

RECURSIVE InsertAll(_, _)
InsertAll(d, rows) == IF rows = <<>> THEN d ELSE InsertAll(Insert(d, Head(rows)), Tail(rows))

\* UPDATE livros SET preco = ? WHERE id = ?  (a statement that matches no row
\* leaves the file alone)
Update(d, livro_id, novo_preco) ==
  IF livro_id \in Ids(d)
  THEN [d EXCEPT !.livros = [i \in 1..Len(@) |->
                               IF @[i].id = livro_id THEN [@[i] EXCEPT !.preco = novo_preco] ELSE @[i]],
                 !.mtime = @ + 1]
  ELSE d

\* DELETE FROM livros WHERE id = ?
Delete(d, livro_id) ==
  IF livro_id \in Ids(d)
  THEN [d EXCEPT !.livros = SelectSeq(@, LAMBDA r : r.id # livro_id), !.mtime = @ + 1]
  ELSE d

\* ---------------------------------------------------------------- backups
MAX_BACKUPS_TO_KEEP == 5

\* shutil.copy2(DB_FILE, path): the file named after the second t, with the
\* database's bytes and modification time; a file of that name is overwritten
Snapshot(d, t) == [name |-> t, mtime |-> d.mtime, data |-> FileData(d)]

Copy2(files, d, t) == {f \in files : f.name # t} \cup {Snapshot(d, t)}

\* a prune that slices one place too far (files[MAX_BACKUPS_TO_KEEP + 1:])
prune_one_too_many(files) ==
  IF Cardinality(files) <= MAX_BACKUPS_TO_KEEP + 1 THEN {files}
  ELSE {K \in SUBSET files :
          /\ Cardinality(K) = MAX_BACKUPS_TO_KEEP + 1
          /\ \A k \in K : \A o \in files \ K : k.mtime >= o.mtime}

\* prune_old_backups: what is left of the directory.  The files are sorted by
\* mtime, newest first, and all after the first MAX_BACKUPS_TO_KEEP are unlinked;
\* sorted() is stable and glob() yields the directory in no defined order, so files
\* of equal mtime are kept or deleted in any order.
prune_old_backups(files) ==
  IF Cardinality(files) <= MAX_BACKUPS_TO_KEEP THEN {files}
  ELSE {K \in SUBSET files :
          /\ Cardinality(K) = MAX_BACKUPS_TO_KEEP
          /\ \A k \in K : \A o \in files \ K : k.mtime >= o.mtime}

\* backup_db at second t: every [db, backups, snap] it can leave
backup_db(d, files, t) ==
  LET d1 == IF d.exists THEN d ELSE init_db(d)
  IN  {[db |-> d1, backups |-> K, snap |-> Snapshot(d1, t)] :
         K \in prune_old_backups(Copy2(files, d1, t))}

\* --------------------------------------------------------------- DB ops
\* A returned value: a boolean, an integer, a text, a list of rows, or the
\* exception that ended the call.
Ret(kind, ok, n, text, rows) == [kind |-> kind, ok |-> ok, n |-> n, text |-> text, rows |-> rows]

RetBool(b) == Ret("bool", b, 0, <<>>, <<>>)

RetInt(n) == Ret("int", FALSE, n, <<>>, <<>>)

RetText(text) == Ret("text", FALSE, 0, text, <<>>)

RetRows(rows) == Ret("rows", FALSE, 0, <<>>, rows)

Raised(exception) == Ret(exception, FALSE, 0, <<>>, <<>>)

\* What a call leaves and answers: ret is the returned value, snap the snapshot the
\* call took (<<>> or <<s>>), wrote whether its INSERT/UPDATE/DELETE ran, raised
\* whether it ended in an exception (sqlite3.OperationalError, csv.Error).
Result(d, files, ret, snap, wrote, raised) ==
  [db |-> d, backups |-> files, ret |-> ret, snap |-> snap, wrote |-> wrote, raised |-> raised]

\* a statement on the livros table of a file that has none
NoSuchTable(d, files, snap) == Result(d, files, Raised("OperationalError"), snap, FALSE, TRUE)

listar_livros(d, files) ==
  LET c == get_connection(d)
  IN  IF c.table THEN Result(c, files, RetRows(c.livros), None, FALSE, FALSE)
      ELSE NoSuchTable(c, files, None)

add_livro(d, files, t, titulo, autor, ano, preco) ==
  {LET c == get_connection(b.db)
   IN  IF c.table
       THEN Result(Insert(c, [titulo |-> Strip(titulo), autor |-> Strip(autor),
                              ano |-> ano, preco |-> preco]),
                   b.backups, RetInt(c.seq + 1), Some(b.snap), TRUE, FALSE)
       ELSE NoSuchTable(c, b.backups, Some(b.snap)) :
   b \in backup_db(d, files, t)}

\* an update_preco that takes its snapshot after the UPDATE
update_preco_write_first(d, files, t, livro_id, novo_preco) ==
  LET c == get_connection(d)
  IN  IF ~c.table THEN {NoSuchTable(c, files, None)}
      ELSE IF livro_id \notin Ids(c) THEN {Result(c, files, RetBool(FALSE), None, FALSE, FALSE)}
      ELSE {Result(b.db, b.backups, RetBool(TRUE), Some(b.snap), TRUE, FALSE) :
              b \in backup_db(Update(c, livro_id, novo_preco), files, t)}

update_preco(d, files, t, livro_id, novo_preco) ==
  LET c == get_connection(d)
  IN  IF ~c.table THEN {NoSuchTable(c, files, None)}
      ELSE IF livro_id \notin Ids(c) THEN {Result(c, files, RetBool(FALSE), None, FALSE, FALSE)}
      ELSE {Result(Update(b.db, livro_id, novo_preco), b.backups, RetBool(TRUE), Some(b.snap), TRUE, FALSE) :
              b \in backup_db(c, files, t)}

\* a delete_livro without the existence check
delete_livro_unchecked(d, files, t, livro_id) ==
  {LET c == get_connection(b.db)
   IN  IF c.table
       THEN Result(Delete(c, livro_id), b.backups, RetBool(TRUE), Some(b.snap), livro_id \in Ids(c), FALSE)
       ELSE NoSuchTable(c, b.backups, Some(b.snap)) :
   b \in backup_db(d, files, t)}

delete_livro(d, files, t, livro_id) ==
  LET c == get_connection(d)
  IN  IF ~c.table THEN {NoSuchTable(c, files, None)}
      ELSE IF livro_id \notin Ids(c) THEN {Result(c, files, RetBool(FALSE), None, FALSE, FALSE)}
      ELSE {Result(Delete(b.db, livro_id), b.backups, RetBool(TRUE), Some(b.snap), TRUE, FALSE) :
              b \in backup_db(c, files, t)}

export_csv_to_memory(d, files) ==
  LET r == listar_livros(d, files)
  IN  IF r.raised THEN r ELSE [r EXCEPT !.ret = RetText(ExportCsv(r.ret.rows))]

\* import_csv_file once the text is parsed into p
ImportParsed(d, files, t, p) ==
  IF p.err THEN {Result(d, files, Raised("csv.Error"), None, FALSE, TRUE)}
  ELSE IF p.rows = <<>> THEN {Result(d, files, RetInt(0), None, FALSE, FALSE)}
  ELSE {LET c == get_connection(b.db)
        IN  IF c.table
            THEN Result(InsertAll(c, p.rows), b.backups, RetInt(Len(p.rows)), Some(b.snap), TRUE, FALSE)
            ELSE NoSuchTable(c, b.backups, Some(b.snap)) :
        b \in backup_db(d, files, t)}

import_csv_file(d, files, t, text) == UNION {ImportParsed(d, files, t, p) : p \in {ImportParse(text)}}

\* ------------------------------------------------------------- handlers
\* A response: the call's result with the HTTP status (an exception that leaves the
\* handler is the framework's 500).
Http(r, status) ==
  [db |-> r.db, backups |-> r.backups, ret |-> r.ret, snap |-> r.snap, wrote |-> r.wrote,
   status |-> IF r.raised THEN 500 ELSE status]

BadRequest(d, files) == Http(Result(d, files, RetText(<<"e", "r", "r", "o", "r">>), None, FALSE, FALSE), 400)

\* "if not ok" on what update_preco / delete_livro returned
NotFound(r) == r.ret = RetBool(FALSE)

index(d, files) == {Http(Result(init_db(d), files, RetText(<<>>), None, FALSE, FALSE), 200)}

api_list(d, files) == {Http(listar_livros(d, files), 200)}

api_add(d, files, t, data) ==
  LET titulo == Strip(data.titulo)
      autor == Strip(data.autor)
      ano_val == IF data.ano_publicacao # <<>> THEN validar_ano(data.ano_publicacao) ELSE None
      preco_val == IF data.preco # <<>> THEN validar_preco(data.preco) ELSE None
  IN  IF titulo = <<>> \/ autor = <<>> THEN {BadRequest(d, files)}
      ELSE IF data.ano_publicacao # <<>> /\ ano_val = None THEN {BadRequest(d, files)}
      ELSE IF data.preco # <<>> /\ preco_val = None THEN {BadRequest(d, files)}
      ELSE {Http(r, 201) : r \in add_livro(d, files, t, titulo, autor, ano_val, preco_val)}

\* an api_update that hands the price on without looking at the validator's answer
api_update_unvalidated(d, files, t, book_id, preco) ==
  {Http(r, IF NotFound(r) THEN 404 ELSE 200) :
     r \in update_preco(d, files, t, book_id, validar_preco(preco))}

api_update(d, files, t, book_id, preco) ==
  LET preco_val == validar_preco(preco)
  IN  IF preco_val = None THEN {BadRequest(d, files)}
      ELSE {Http(r, IF NotFound(r) THEN 404 ELSE 200) :
              r \in update_preco(d, files, t, book_id, preco_val)}

api_delete(d, files, t, book_id) ==
  {Http(r, IF NotFound(r) THEN 404 ELSE 200) : r \in delete_livro(d, files, t, book_id)}

api_export(d, files) == {Http(export_csv_to_memory(d, files), 200)}

api_import(d, files, t, text) == {Http(r, 200) : r \in import_csv_file(d, files, t, text)}

api_backup(d, files, t) ==
  {Http(Result(b.db, b.backups, RetInt(b.snap.name), Some(b.snap), FALSE, FALSE), 200) :
     b \in backup_db(d, files, t)}

\* ----------------------------------------------------------------- state
\* db, backups: the database file and the snapshot files of BACKUP_DIR;
\* now: the wall clock, in seconds; last: the request answered by the latest step
\* and its response (lost: the row it was to write was deleted under it);
\* hist: how many calls so far wrote to the table (mut), how many backup_db calls
\* were made (calls) and how many snapshot files prune unlinked; pc, loc: where each worker thread of a threaded server
\* stands inside update_preco / delete_livro, and its locals (gone: another
\* thread deleted the row livro_id after this thread's existence check).
VARIABLES db, backups, now, last, hist, pc, loc

vars == <<db, backups, now, last, hist, pc, loc>>

Threads == {1, 2}

Idle == [op |-> "none", status |-> 0, ret |-> RetInt(0), snap |-> None, wrote |-> FALSE, lost |-> FALSE]

NoLocals == [op |-> "none", livro_id |-> 0, novo_preco |-> None, snap |-> None, gone |-> FALSE]

\* the process has started and no request was served: no database file yet (the
\* module is imported by a WSGI server; "python app.py" runs init_db first, which
\* is the step Index)
Init ==
  /\ db = NoDb
  /\ backups = {}
  /\ now = 0
  /\ last = Idle
  /\ hist = [mut |-> 0, calls |-> 0, unlinked |-> 0]
  /\ pc = [t \in Threads |-> "idle"]
  /\ loc = [t \in Threads |-> NoLocals]

Count1(b) == IF b THEN 1 ELSE 0

\* the files a backup_db call at second t unlinked, given the directory it found
\* and the directory it left
Unlinked(before, after, t) == Cardinality({f \in before : f.name # t}) + 1 - Cardinality(after)

\* one request served from start to end, answered with one of the responses
Serve(op, responses) ==
  /\ \A t \in Threads : pc[t] = "idle"
  /\ \E r \in responses :
       /\ db' = r.db
       /\ backups' = r.backups
       /\ last' = [op |-> op, status |-> r.status, ret |-> r.ret, snap |-> r.snap,
                   wrote |-> r.wrote, lost |-> FALSE]
       /\ hist' = [mut |-> hist.mut + Count1(r.wrote),
                   calls |-> hist.calls + Count1(r.snap # None),
                   unlinked |-> hist.unlinked
                                  + (IF r.snap # None THEN Unlinked(backups, r.backups, now) ELSE 0)]
  /\ UNCHANGED <<now, pc, loc>>

Tick ==
  /\ now' = now + 1
  /\ last' = Idle
  /\ UNCHANGED <<db, backups, hist, pc, loc>>

Index == Serve("index", index(db, backups))

ApiList == Serve("list", api_list(db, backups))

ApiAdd(data) == Serve("add", api_add(db, backups, now, data))

ApiUpdate(book_id, preco) == Serve("update", api_update(db, backups, now, book_id, preco))

ApiDelete(book_id) == Serve("delete", api_delete(db, backups, now, book_id))

ApiExport == Serve("export", api_export(db, backups))

ApiImport(text) == Serve("import", api_import(db, backups, now, text))

ApiBackup == Serve("backup", api_backup(db, backups, now))

\* ------------------------------------------- update/delete, statement-wise
\* update_preco and delete_livro as a worker thread runs them beside another:
\* the SELECT, backup_db and the UPDATE/DELETE each use a connection of their own,
\* and the other thread's statements may fall between them.
\* a call that goes from its SELECT straight to its write
AfterCheckNoBackup == "write"

\* where a call goes once its SELECT has found the row
AfterCheck == "backup"

\* cur.execute("SELECT id FROM livros WHERE id = ?"); fetchone() is None: return False
Check(t, op, livro_id, novo_preco) ==
  /\ pc[t] = "idle"
  /\ db' = get_connection(db)
  /\ IF ~db'.table \/ livro_id \notin Ids(db')
     THEN /\ last' = [op |-> op, status |-> IF db'.table THEN 404 ELSE 500,
                      ret |-> IF db'.table THEN RetBool(FALSE) ELSE Raised("OperationalError"),
                      snap |-> None, wrote |-> FALSE, lost |-> FALSE]
          /\ UNCHANGED <<pc, loc>>
     ELSE /\ pc' = [pc EXCEPT ![t] = AfterCheck]
          /\ loc' = [loc EXCEPT ![t] = [op |-> op, livro_id |-> livro_id, novo_preco |-> novo_preco,
                                        snap |-> None, gone |-> FALSE]]
          /\ UNCHANGED last
  /\ UNCHANGED <<backups, now, hist>>

\* backup_db(reason="update_web" / "delete_web")
Backup(t) ==
  /\ pc[t] = "backup"
  /\ \E b \in backup_db(db, backups, now) :
       /\ db' = b.db
       /\ backups' = b.backups
       /\ loc' = [loc EXCEPT ![t].snap = Some(b.snap)]
       /\ hist' = [hist EXCEPT !.calls = @ + 1, !.unlinked = @ + Unlinked(backups, b.backups, now)]
  /\ pc' = [pc EXCEPT ![t] = "write"]
  /\ UNCHANGED <<now, last>>

\* the threads whose row this DELETE removes between their check and their write
Overtaken(t, livro_id) ==
  {u \in Threads \ {t} : pc[u] # "idle" /\ loc[u].livro_id = livro_id /\ livro_id \in Ids(db)}

\* cur.execute("UPDATE ..." / "DELETE ..."); conn.commit(); return True
Write(t) ==
  /\ pc[t] = "write"
  /\ LET c == get_connection(db)
         id == loc[t].livro_id
         hit == id \in Ids(c)
     IN  /\ db' = IF loc[t].op = "update" THEN Update(c, id, loc[t].novo_preco) ELSE Delete(c, id)
         /\ hist' = [hist EXCEPT !.mut = @ + Count1(hit)]
         /\ last' = [op |-> loc[t].op, status |-> 200, ret |-> RetBool(TRUE), snap |-> loc[t].snap,
                     wrote |-> hit, lost |-> loc[t].gone]
         /\ pc' = [pc EXCEPT ![t] = "idle"]
         /\ loc' = [u \in Threads |->
                      IF u = t THEN NoLocals
                      ELSE IF loc[t].op = "delete" /\ u \in Overtaken(t, id)
                      THEN [loc[u] EXCEPT !.gone = TRUE] ELSE loc[u]]
  /\ UNCHANGED <<backups, now>>

\* ------------------------------------------------- requests and bounds
MaxCalls == 3

MaxRows == 2

MaxClock == 5

MaxBackupCalls == 6

Titles == {<<>>, <<" ">>, <<" ", "a">>, <<",", "\"">>}

Authors == {<<>>, <<"b", ";">>}

Years == {<<>>, <<"2", "0", "2", "7">>, <<"2", "0", "2", "8">>}

Prices == {<<>>, <<"-", "1">>, <<"1", ".", "5", "0">>}

AddRequests == [titulo : Titles, autor : Authors, ano_publicacao : Years, preco : Prices]

NewPrices == {<<>>, <<"-", "1">>, <<"2">>}

\* an empty file; a header alone; a blank line; a row of empty fields; two rows
\* under English names with semicolons; a bare carriage return inside a field
CsvFiles ==
  { <<>>,
    K_titulo \o <<",">> \o K_autor \o <<"\r", "\n">>,
    <<"\n">>,
    K_titulo \o <<",">> \o K_autor \o <<"\n", ",", "\n">>,
    K_title \o <<";">> \o K_author \o <<";">> \o K_year \o <<";">> \o K_price \o <<"\n">>
      \o <<"c", ";", "d", ";", "2", "0", "2", "7", ";", "0", ".", "5", "\n">>
      \o <<"\"", "e", ";", "\"", ";", "f", ";", "x", ";", "-", "1">>,
    K_titulo \o <<",">> \o K_autor \o <<"\n", "a", "\r", "b", "\n">> }

\* the ids in the table and one that is not
BookIds == 1..(db.seq + 1)

\* requests of every kind, served one after the other within one second
Next ==
  \/ Index
  \/ ApiList
  \/ ApiExport
  \/ hist.calls < MaxCalls /\ ApiBackup
  \/ hist.calls < MaxCalls /\ Len(db.livros) < MaxRows /\ \E data \in AddRequests : ApiAdd(data)
  \/ hist.calls < MaxCalls /\ \E book_id \in BookIds : \E preco \in NewPrices : ApiUpdate(book_id, preco)
  \/ hist.calls < MaxCalls /\ \E book_id \in BookIds : ApiDelete(book_id)
  \/ hist.calls < MaxCalls /\ Len(db.livros) < MaxRows /\ \E text \in CsvFiles : ApiImport(text)

Spec == Init /\ [][Next]_vars

\* manual backups and the writes of one book at a time, over many seconds
OneBook == [titulo |-> <<"a">>, autor |-> <<"b">>, ano_publicacao |-> <<>>, preco |-> <<>>]

NextBackups ==
  \/ now < MaxClock /\ Tick
  \/ hist.calls < MaxBackupCalls /\ ApiBackup
  \/ hist.calls < MaxBackupCalls /\ db.livros = <<>> /\ ApiAdd(OneBook)
  \/ hist.calls < MaxBackupCalls /\ \E book_id \in Ids(db) : ApiDelete(book_id)

SpecBackups == Init /\ [][NextBackups]_vars

\* a threaded server: one book added, then price updates and deletes of it by two
\* worker threads, statement by statement
MaxRaceCalls == 4

InFlight == Cardinality({t \in Threads : pc[t] # "idle"})

NextThreads ==
  \/ hist.calls + InFlight < MaxRaceCalls /\ db.livros = <<>> /\ ApiAdd(OneBook)
  \/ /\ hist.calls + InFlight < MaxRaceCalls
     /\ \E t \in Threads : \E book_id \in BookIds :
          \/ Check(t, "update", book_id, Some([neg |-> FALSE, m |-> 2, e |-> 0]))
          \/ Check(t, "delete", book_id, None)
  \/ \E t \in Threads : Backup(t)
  \/ \E t \in Threads : Write(t)

SpecThreads == Init /\ [][NextThreads]_vars

\* --------------------------------------------------------------- claims
Mutating == {"add", "update", "delete", "import"}

\* C1: every call of add_livro, update_preco, delete_livro or import_csv_file that
\* writes to the table has taken a snapshot in the same call, and with the requests
\* served one after the other that snapshot holds the rows the table had just
\* before the write.
C1_SnapshotBeforeWrite ==
  [][(last'.op \in Mutating /\ last'.wrote)
       => (last'.snap # None /\ last'.snap[1].data.livros = db.livros)]_vars

\* a price update answered with success whose snapshot holds a table with rows
C1_Witness ==
  /\ last.op = "update" /\ last.wrote /\ last.snap # None
  /\ last.snap[1].data.livros # <<>>
  /\ last.snap[1].data.livros # db.livros

\* C2: once a backup_db call has returned, the backup directory holds at most
\* MAX_BACKUPS_TO_KEEP snapshot files.
C2_Retention == hist.calls > 0 => Cardinality(backups) <= MAX_BACKUPS_TO_KEEP

\* a backup_db call has just returned whose prune unlinked a file
C2_Witness ==
  last.snap # None /\ hist.unlinked > 0 /\ Cardinality(backups) = MAX_BACKUPS_TO_KEEP

Untouched == db' = db /\ backups' = backups /\ last'.snap = None /\ ~last'.wrote

NotFoundUntouched ==
  /\ backups' = backups /\ db'.livros = db.livros /\ last'.snap = None
  /\ db.table => (last'.ret = RetBool(FALSE) /\ last'.status = 404 /\ Untouched)

GoodPrices == {<<"2">>}

\* an empty file, a header alone, a blank line
NoDataFiles == {<<>>, K_titulo \o <<",">> \o K_autor \o <<"\r", "\n">>, <<"\n">>}

BlankTexts == {<<>>, <<" ">>}

BadYears == {<<"2", "0", "2", "8">>}

BadPrices == {<<"-", "1">>}

\* C4: an add request with an empty or blank title or author, or with a year or a
\* price that fails validation, and a price update with an invalid price, is
\* answered 400 with no snapshot taken and the database as it was.  (Stated
\* contrapositively, as C3.)
C4_ValidationFirst ==
  [][/\ (last'.op = "add" /\ ~(last'.status = 400 /\ Untouched)) =>
          ~\E data \in AddRequests :
             /\ \/ data.titulo \in BlankTexts \/ data.autor \in BlankTexts
                \/ data.ano_publicacao \in BadYears \/ data.preco \in BadPrices
             /\ ApiAdd(data)
     /\ (last'.op = "update" /\ ~(last'.status = 400 /\ Untouched)) =>
          ~\E book_id \in BookIds : \E preco \in BadPrices \cup {<<>>} : ApiUpdate(book_id, preco)]_vars

\* a price update answered 400 on a store that has rows and a snapshot
C4_Witness ==
  /\ last.op = "update" /\ last.status = 400
  /\ db.livros # <<>> /\ backups # {}

\* C5: every stored book has a non-empty title and a non-empty author.
C5_TitleAuthorNonEmpty ==
  \A i \in 1..Len(db.livros) : db.livros[i].titulo # <<>> /\ db.livros[i].autor # <<>>

\* C6: after 6 mutating operations, the only backup_db calls made, exactly
\* MAX_BACKUPS_TO_KEEP snapshot files remain, and the one unlinked is the oldest by
\* modification time.
C6_SixOperations ==
  (hist.mut = 6 /\ hist.calls = 6)
    => /\ Cardinality(backups) = MAX_BACKUPS_TO_KEEP
       /\ hist.unlinked = 1
       /\ \A f \in backups : f.mtime > 2

Fields(rows) ==
  [i \in 1..Len(rows) |-> [titulo |-> rows[i].titulo, autor |-> rows[i].autor,
                           ano |-> rows[i].ano, preco |-> rows[i].preco]]

\* C7: importing what export_csv_to_memory returns into an empty store yields the
\* same rows (title, author, year, price) in the same order.
C7_RoundTrip ==
  db.table =>
    \A r \in import_csv_file(init_db(NoDb), {}, now, export_csv_to_memory(db, backups).ret.text) :
      ~r.raised /\ Fields(r.db.livros) = Fields(db.livros)

\* two rows, one with a comma and a quote in its title, one with a year and a price
C7_Witness ==
  /\ Len(db.livros) = 2
  /\ \E i \in 1..2 : db.livros[i].titulo = <<",", "\"">>
  /\ \E i \in 1..2 : db.livros[i].ano # None /\ db.livros[i].preco # None

\* C8: an update_preco or delete_livro that answers True has taken a snapshot, and
\* it changed no row exactly when another thread's DELETE removed its row between
\* its existence check and its write.
C8_CheckThenAct ==
  (last.op \in {"update", "delete"} /\ last.status = 200)
    => (last.ret = RetBool(TRUE) /\ last.snap # None /\ (last.wrote <=> ~last.lost))

\* the race: True returned and a snapshot taken, with no row changed
C8_Witness ==
  /\ last.op = "update" /\ last.status = 200 /\ last.ret = RetBool(TRUE)
  /\ last.snap # None /\ ~last.wrote /\ last.lost

\* C9: when backup_db has returned, the database file exists and holds the livros
\* table.
C9_SchemaAfterBackup ==
  last.snap # None => (db.exists /\ db.table /\ last.snap[1].data.table)

\* C10: the snapshot a backup_db call created is still in the directory when the
\* call returns.
C10_NewSnapshotKept == last.snap # None => last.snap[1] \in backups

====
